---- MODULE Spec2Model ----
(***************************************************************************)
(* Model of app.py: a Flask service with                                   *)
(*   - POST /extract-text : validate body, resolve Google Drive links,     *)
(*     download the document, extract its text, answer JSON;               *)
(*   - GET /health        : report the process-wide health_status record;  *)
(*   - a daemon thread that probes a fixed URL every 300 s and rewrites    *)
(*     health_status field by field.                                       *)
(* Python strings are TLA+ strings; searches are done character by         *)
(* character as re.search / str.startswith / the `in` operator do them.    *)
(***************************************************************************)
EXTENDS Integers, Sequences, FiniteSets, TLC

VARIABLES
    \* ---- extraction endpoint (one request at a time is followed) ----
    epc,            \* "idle" | "received" | "responded"
    request,        \* the body of the request in flight (what get_json yields)
    network,        \* what the remote end answered to this request's GET
    response,       \* [code, body] sent back, or NoResponse
    resolverCalls,  \* arguments convert_google_drive_url was called with
    resolverRaised, \* exceptions convert_google_drive_url raised
    gets,           \* URLs requests.get was called with
    downloads,      \* URLs download_pdf was called with
    caught,         \* the exception caught by extract_text's handler, or NoExc
    \* ---- health loop and health endpoint ----
    health_status,  \* the global dict
    hpc,            \* position of the health thread
    probe,          \* outcome of the probe of the cycle in progress
    now,            \* the wall clock
    cycles,         \* completed calls of perform_health_check
    atStart,        \* health_status as it was when the current cycle began
    boundaries,     \* every value health_status had between two cycles
    rpc,            \* position of the GET /health handler
    snap,           \* fields of the response read so far
    servedAfter     \* cycles completed when the response was sent

evars == <<epc, request, network, response, resolverCalls, resolverRaised, gets, downloads, caught>>
hvars == <<health_status, hpc, probe, now, cycles, atStart, boundaries, rpc, snap, servedAfter>>
vars == <<evars, hvars>>

-----------------------------------------------------------------------------
(* Bounds *)
MaxCycles == 3
MaxPages == 2

-----------------------------------------------------------------------------
(* Python string primitives *)

\* s[i] as a one-character string (1-based)
CharAt(s, i) == SubSeq(s, i, i)

\* str.startswith
StartsWith(s, p) == Len(s) >= Len(p) /\ SubSeq(s, 1, Len(p)) = p

\* str.endswith
EndsWith(s, p) == Len(s) >= Len(p) /\ SubSeq(s, Len(s) - Len(p) + 1, Len(s)) = p

\* p occurs in s at position i
OccursAt(s, p, i) == i >= 1 /\ i + Len(p) - 1 <= Len(s) /\ SubSeq(s, i, i + Len(p) - 1) = p

\* the `in` operator on two strings
Contains(s, p) == \E i \in 1..(Len(s) + 1) : OccursAt(s, p, i)

Min(S) == CHOOSE x \in S : \A y \in S : x <= y

\* the character class [a-zA-Z0-9-_]
IdChars ==
    {"a","b","c","d","e","f","g","h","i","j","k","l","m",
     "n","o","p","q","r","s","t","u","v","w","x","y","z",
     "A","B","C","D","E","F","G","H","I","J","K","L","M",
     "N","O","P","Q","R","S","T","U","V","W","X","Y","Z",
     "0","1","2","3","4","5","6","7","8","9","-","_"}

IsIdChar(s, i) == i >= 1 /\ i <= Len(s) /\ CharAt(s, i) \in IdChars

\* positions at which  lit([a-zA-Z0-9-_]+)  matches in s
MatchStarts(s, lit) == {i \in 1..Len(s) : OccursAt(s, lit, i) /\ IsIdChar(s, i + Len(lit))}

\* the greedy run [a-zA-Z0-9-_]+ that starts at position i
RECURSIVE RunEnd(_, _)
RunEnd(s, i) == IF IsIdChar(s, i + 1) THEN RunEnd(s, i + 1) ELSE i

\* re.search(lit + '([a-zA-Z0-9-_]+)', s): group(1) of the leftmost match, or NoMatch
NoMatch == [matched |-> FALSE, group |-> ""]
re_search(lit, s) ==
    LET starts == MatchStarts(s, lit) IN
    IF starts = {} THEN NoMatch
    ELSE LET b == Min(starts) + Len(lit)
         IN [matched |-> TRUE, group |-> SubSeq(s, b, RunEnd(s, b))]

-----------------------------------------------------------------------------
(* Values and exceptions *)

\* JSON values as request.get_json() yields them; Invalid is a body it rejects
Null == [t |-> "null"]
Invalid == [t |-> "invalid"]
Num(n) == [t |-> "num", n |-> n]
Bool(b) == [t |-> "bool", b |-> b]
Str(s) == [t |-> "str", s |-> s]
Arr(a) == [t |-> "arr", a |-> a]
Obj(o) == [t |-> "obj", o |-> o]

Exc(type, msg) == [type |-> type, msg |-> msg]
NoExc == Exc("none", "")
Return(v) == [ok |-> TRUE, val |-> v, exc |-> NoExc]
Raise(e) == [ok |-> FALSE, val |-> Null, exc |-> e]

\* Python's name of the type of a JSON value, as it appears in messages
TypeName(d) ==
    CASE d.t = "null" -> "NoneType"
      [] d.t = "num" -> "int"
      [] d.t = "bool" -> "bool"
      [] d.t = "str" -> "str"
      [] d.t = "arr" -> "list"
      [] OTHER -> "dict"

\* truth value of a JSON value (`not data`)
Truthy(d) ==
    CASE d.t = "null" -> FALSE
      [] d.t = "num" -> d.n # 0
      [] d.t = "bool" -> d.b
      [] d.t = "str" -> d.s # ""
      [] d.t = "arr" -> d.a # <<>>
      [] OTHER -> DOMAIN d.o # {}

\* `key in d`
InOp(key, d) ==
    CASE d.t = "obj" -> Return(key \in DOMAIN d.o)
      [] d.t = "arr" -> Return(\E i \in 1..Len(d.a) : d.a[i] = Str(key))
      [] d.t = "str" -> Return(Contains(d.s, key))
      [] OTHER -> Raise(Exc("TypeError",
                            "argument of type '" \o TypeName(d) \o "' is not iterable"))

\* `d[key]`, reached only after `key in d` was true
GetItem(d, key) ==
    CASE d.t = "obj" -> Return(d.o[key])
      [] d.t = "arr" -> Raise(Exc("TypeError", "list indices must be integers or slices, not str"))
      [] OTHER -> Raise(Exc("TypeError", "string indices must be integers, not 'str'"))

\* `v.startswith(p)`
StartsWithOp(v, p) ==
    IF v.t = "str" THEN Return(StartsWith(v.s, p))
    ELSE Raise(Exc("AttributeError",
                   "'" \o TypeName(v) \o "' object has no attribute 'startswith'"))

-----------------------------------------------------------------------------
(* URL Resolver *)

DriveDomain == "drive.google.com"
DirectDownloadPrefix == "https://drive.google.com/uc?export=download&id="

\* the patterns with the id= parameter tried first
patterns_IdFirst == <<"id=", "/file/d/", "/open?id=">>

\* the patterns, in the order they are tried
patterns == <<"/file/d/", "id=", "/open?id=">>

\* the for loop: the first pattern that matches sets file_id and breaks
RECURSIVE FirstMatch(_, _, _)
FirstMatch(pats, url, k) ==
    IF k > Len(pats) THEN NoMatch
    ELSE LET m == re_search(pats[k], url)
         IN IF m.matched THEN m ELSE FirstMatch(pats, url, k + 1)

\* the Resolver without its `if not file_id: raise`
convert_google_drive_url_NoRaise(url) ==
    LET m == FirstMatch(patterns, url, 1) IN
    IF ~m.matched THEN Return(url) ELSE Return(DirectDownloadPrefix \o m.group)

convert_google_drive_url(url) ==
    LET m == FirstMatch(patterns, url, 1) IN
    IF ~m.matched
    THEN Raise(Exc("ValueError", "Could not extract file ID from Google Drive URL"))
    ELSE Return(DirectDownloadPrefix \o m.group)

-----------------------------------------------------------------------------
(* Document Fetcher *)

\* What the remote end does with a GET: it answers (status, body) or the
\* transport fails.  A body is a paged document or something else.
Answer(status, pdf, pages) == [kind |-> "answer", status |-> status, pdf |-> pdf, pages |-> pages]
TransportFailure == [kind |-> "failure", status |-> 0, pdf |-> FALSE, pages |-> <<>>]

StatusText(status) ==
    CASE status = 404 -> "404 Client Error: Not Found"
      [] status = 500 -> "500 Server Error: Internal Server Error"
      [] OTHER -> "HTTP Error"

\* requests.get(url, stream=True) followed by response.raise_for_status():
\* only http:// and https:// URLs have a connection adapter
requests_get(url, net) ==
    IF ~(StartsWith(url, "http://") \/ StartsWith(url, "https://"))
    THEN Raise(Exc("InvalidSchema", "No connection adapters were found for " \o url))
    ELSE IF net.kind = "failure"
    THEN Raise(Exc("ConnectionError", "Connection refused"))
    ELSE IF net.status >= 400
    THEN Raise(Exc("HTTPError", StatusText(net.status) \o " for url: " \o url))
    ELSE [ok |-> TRUE, val |-> [pdf |-> net.pdf, pages |-> net.pages], exc |-> NoExc]

\* the except clause of download_pdf
DownloadFailed(e) == Exc("Exception", "Failed to download PDF: " \o e.msg)

\* `'drive.google.com' in url`
IsDriveUrl(url) == Contains(url, DriveDomain)

\* lines 58-67 and the except clause, given what requests.get did
AfterGet(called, url, got) ==
    [ok |-> got.ok,
     val |-> got.val,
     exc |-> IF got.ok THEN NoExc ELSE DownloadFailed(got.exc),
     resolverCalls |-> called, resolverRaised |-> <<>>, gets |-> <<url>>]

\* lines 55-58 and the except clause, given what the Resolver did
AfterConvert(called, conv, net) ==
    IF ~conv.ok
    THEN [ok |-> FALSE, val |-> Null, exc |-> DownloadFailed(conv.exc),
          resolverCalls |-> called, resolverRaised |-> <<conv.exc>>, gets |-> <<>>]
    ELSE AfterGet(called, conv.val, requests_get(conv.val, net))

\* download_pdf(url) when the remote end does `net`: the outcome, with the
\* calls made on the way
download_pdf(url, net) ==
    IF IsDriveUrl(url)
    THEN AfterConvert(<<url>>, convert_google_drive_url(url), net)
    ELSE AfterConvert(<<>>, Return(url), net)

-----------------------------------------------------------------------------
(* Text Extractor *)

Whitespace == {" ", "\n", "\t"}

RECURSIVE LStrip(_)
LStrip(s) == IF s # "" /\ CharAt(s, 1) \in Whitespace THEN LStrip(Tail(s)) ELSE s

RECURSIVE RStrip(_)
RStrip(s) ==
    IF s # "" /\ CharAt(s, Len(s)) \in Whitespace THEN RStrip(SubSeq(s, 1, Len(s) - 1)) ELSE s

\* str.strip()
Strip(s) == RStrip(LStrip(s))

\* the loop over range(len(pdf_reader.pages))
RECURSIVE PagesText(_, _)
PagesText(pages, n) ==
    IF n = 0 THEN "" ELSE PagesText(pages, n - 1) \o pages[n] \o "\n"

extract_text_from_pdf(content) ==
    IF ~content.pdf
    THEN Raise(Exc("Exception", "Failed to extract text from PDF: EOF marker not found"))
    ELSE Return(Strip(PagesText(content.pages, Len(content.pages))))

-----------------------------------------------------------------------------
(* Request Handler: POST /extract-text *)

JsonResponse(code, body) == [code |-> code, body |-> body]
NoResponse == JsonResponse(0, <<>>)

ErrorBody(msg) == [error |-> msg, status |-> "error"]

\* line 132: the url field is missing
MissingField == JsonResponse(400, ErrorBody("Missing required field: url"))
\* line 141: the url fails validation
InvalidUrlFormat == JsonResponse(400, ErrorBody("Invalid URL format"))
\* the except clause without its `, 500`: jsonify alone answers 200
ServerError_NoStatus(e) == JsonResponse(200, ErrorBody(e.msg))
\* line 159: the except clause of extract_text
ServerError(e) == JsonResponse(500, ErrorBody(e.msg))
\* line 152: jsonify(...) alone answers 200
Success(text) ==
    JsonResponse(200, [text |-> text, status |-> "success",
                       message |-> "Text extracted successfully"])

NoCalls == [downloads |-> <<>>, resolverCalls |-> <<>>, resolverRaised |-> <<>>, gets |-> <<>>]
Done(resp, e, calls) == [response |-> resp, caught |-> e, calls |-> calls]

\* line 140, given what startswith did
CheckPrefix(pdf_url, sw) ==
    IF ~sw.ok THEN Raise(sw.exc)
    ELSE IF ~sw.val THEN Return(InvalidUrlFormat)
    ELSE Return(pdf_url)

\* line 137, given what data['url'] did
CheckUrl(item) ==
    IF ~item.ok THEN Raise(item.exc)
    ELSE CheckPrefix(item.val, StartsWithOp(item.val, "http"))

\* line 131, second operand, given what `'url' not in data` did
CheckField(data, has) ==
    IF ~has.ok THEN Raise(has.exc)
    ELSE IF ~has.val THEN Return(MissingField)
    ELSE CheckUrl(GetItem(data, "url"))

\* the validation of lines 129-144: what it answers, or the URL it lets through
Validate(body) ==
    IF body.t = "invalid"
    THEN Raise(Exc("BadRequest", "400 Bad Request: Failed to decode JSON object"))
    ELSE IF ~Truthy(body) THEN Return(MissingField)
    ELSE CheckField(body, InOp("url", body))

\* lines 150-162, given what the Extractor did
AfterExtract(calls, ex) ==
    IF ~ex.ok THEN Done(ServerError(ex.exc), ex.exc, calls)
    ELSE Done(Success(ex.val), NoExc, calls)

CallsOf(pdf_url, dl) ==
    [downloads |-> <<pdf_url>>, resolverCalls |-> dl.resolverCalls,
     resolverRaised |-> dl.resolverRaised, gets |-> dl.gets]

\* lines 147-162, given what the Fetcher did
AfterDownload(pdf_url, dl) ==
    IF ~dl.ok THEN Done(ServerError(dl.exc), dl.exc, CallsOf(pdf_url, dl))
    ELSE AfterExtract(CallsOf(pdf_url, dl), extract_text_from_pdf(dl.val))

\* lines 131-162, given what the validation did
AfterValidate(v, net) ==
    IF ~v.ok THEN Done(ServerError(v.exc), v.exc, NoCalls)
    ELSE IF "code" \in DOMAIN v.val THEN Done(v.val, NoExc, NoCalls)
    ELSE AfterDownload(v.val.s, download_pdf(v.val.s, net))

\* extract_text() for the request body `body` when the remote end does `net`
extract_text(body, net) == AfterValidate(Validate(body), net)

-----------------------------------------------------------------------------
(* Requests the clients send and answers the remote end gives *)

\* Drive share links  <pre>/file/d/<id><suf> : no prefix holds a /file/d/<id>
\* of its own, every suffix is empty or starts outside [a-zA-Z0-9-_]
DrivePrefixes ==
    {"https://drive.google.com",
     "http://drive.google.com/u/0",
     "https://drive.google.com/open?id=OTHER&next=",
     "https://drive.google.com/file/d/"}
FileIds == {"1aB-c_9", "x", "A_-"}
LinkSuffixes == {"", "/view", "/view?usp=sharing", "?id=OTHER", "/view?id=zz9&export=download", ".pdf"}
FileLinks == {pre \o "/file/d/" \o id \o suf : pre \in DrivePrefixes, id \in FileIds, suf \in LinkSuffixes}

\* Drive links with an id= parameter only
IdLinks ==
    {"https://drive.google.com/open?id=Q_1",
     "https://drive.google.com/uc?export=download&id=Zz9",
     "https://drive.google.com/view?fid=abc"}

\* Drive links no pattern finds an identifier in
NoIdLinks ==
    {"https://drive.google.com",
     "https://drive.google.com/drive/my-drive",
     "https://drive.google.com/open?id=",
     "http://drive.google.com/file/d/?usp=sharing",
     "https://drive.google.com/open?id=%20x"}

\* absolute http(s) URLs of other hosts
OtherHostUrls ==
    {"https://example.com/doc.pdf",
     "http://example.com/a",
     "https://example.com/doc.pdf?ref=drive.google.com",
     "https://example.com/drive.google.com/file/d/abc",
     "https://example.com/get?id=7",
     "https://docs.google.com/document/d/1",
     "https://drive.google.com.evil.org/x.pdf",
     "https://mydrive.google.com/file/d/x"}

\* texts that are no http(s) URL
NonHttpUrls ==
    {"", "not-a-url", "ftp://example.com/a.pdf", "HTTPS://EXAMPLE.COM/a.pdf",
     "http", "httpx://example.com/a.pdf", "http-drive.google.com/file/d/q",
     "drive.google.com/file/d/q"}

Urls == FileLinks \cup IdLinks \cup NoIdLinks \cup OtherHostUrls \cup NonHttpUrls

EmptyObject == [k \in {} |-> Null]

Bodies ==
    {Invalid, Null, Num(0), Num(5), Bool(FALSE), Bool(TRUE),
     Str(""), Str("x"), Str("my url"),
     Arr(<<>>), Arr(<<Str("a")>>), Arr(<<Str("url")>>),
     Obj(EmptyObject), Obj("x" :> Str("https://example.com/doc.pdf")),
     Obj("url" :> Null), Obj("url" :> Num(5)),
     Obj(("url" :> Str("https://example.com/doc.pdf")) @@ ("x" :> Num(1)))}
    \cup {Obj("url" :> Str(u)) : u \in Urls}

PageTexts == {"", "Hello ", "a\nb"}
RECURSIVE SeqsUpTo(_, _)
SeqsUpTo(S, n) ==
    IF n = 0 THEN {<<>>}
    ELSE LET shorter == SeqsUpTo(S, n - 1)
         IN shorter \cup {Append(q, x) : q \in shorter, x \in S}

Networks ==
    {Answer(200, TRUE, pages) : pages \in SeqsUpTo(PageTexts, MaxPages)}
    \cup {Answer(200, FALSE, <<>>), Answer(404, FALSE, <<>>), Answer(500, FALSE, <<>>),
          TransportFailure}

-----------------------------------------------------------------------------
(* Health Monitor *)

SleepSeconds == 300
ProbeTimeout == 10

None == Null

\* what requests.get(test_url, timeout=10) does, and how long it takes
Status(code) == [kind |-> "status", code |-> code, msg |-> "", took |-> 1]
Raised(msg, took) == [kind |-> "raise", code |-> 0, msg |-> msg, took |-> took]
NoProbe == [kind |-> "none", code |-> 0, msg |-> "", took |-> 0]
ProbeOutcomes ==
    {Status(200), Status(404), Status(503),
     Raised("Read timed out. (read timeout=10)", ProbeTimeout)}

CodeText(code) ==
    CASE code = 404 -> "404"
      [] code = 503 -> "503"
      [] OTHER -> "200"

\* lines 95, 99, 104
StatusFor(o) ==
    IF o.kind = "raise" THEN "unhealthy"
    ELSE IF o.code = 200 THEN "healthy" ELSE "warning"

\* the 200 branch without line 96: the old error stays
LastErrorFor_NotCleared(o) ==
    IF o.kind = "raise" THEN Str(o.msg)
    ELSE IF o.code = 200 THEN health_status.last_error
    ELSE Str("Test download failed with status " \o CodeText(o.code))

\* lines 96, 100, 105
LastErrorFor(o) ==
    IF o.kind = "raise" THEN Str(o.msg)
    ELSE IF o.code = 200 THEN None
    ELSE Str("Test download failed with status " \o CodeText(o.code))

\* line 110 with `= 1` for `+= 1`
NextCount_Assign(n) == 1

\* line 110
NextCount(n) == n + 1

\* line 103: `except Exception` catches whatever requests.get raises
ExceptCatches(o) == TRUE

InitialHealth ==
    [status |-> "healthy", last_check |-> 0, checks_performed |-> 0, last_error |-> None]

NoSnap ==
    [code |-> 0, status |-> "", last_check |-> -1, checks_performed |-> -1,
     last_error |-> None, timestamp |-> -1]

-----------------------------------------------------------------------------
(* Initial state: the module is imported, the thread is started *)

InitExtract ==
    /\ epc = "idle"
    /\ request = Null
    /\ network = TransportFailure
    /\ response = NoResponse
    /\ resolverCalls = <<>>
    /\ resolverRaised = <<>>
    /\ gets = <<>>
    /\ downloads = <<>>
    /\ caught = NoExc

InitHealth ==
    /\ health_status = InitialHealth
    /\ hpc = "probe"
    /\ probe = NoProbe
    /\ now = 0
    /\ cycles = 0
    /\ atStart = InitialHealth
    /\ boundaries = {InitialHealth}
    /\ rpc = "idle"
    /\ snap = NoSnap
    /\ servedAfter = 0

Init == InitExtract /\ InitHealth

-----------------------------------------------------------------------------
(* POST /extract-text *)

\* a client posts a body
SendRequest ==
    /\ epc = "idle"
    /\ \E body \in Bodies : request' = body
    /\ epc' = "received"
    /\ UNCHANGED <<network, response, resolverCalls, resolverRaised, gets, downloads, caught>>
    /\ UNCHANGED hvars

\* what a run of the handler leaves behind
Answered(r) ==
    /\ response' = r.response
    /\ caught' = r.caught
    /\ downloads' = r.calls.downloads
    /\ resolverCalls' = r.calls.resolverCalls
    /\ resolverRaised' = r.calls.resolverRaised
    /\ gets' = r.calls.gets

\* the handler runs; the remote end does one of the things it can do
ExtractText ==
    /\ epc = "received"
    /\ \E net \in Networks : network' = net /\ Answered(extract_text(request, net))
    /\ epc' = "responded"
    /\ UNCHANGED request
    /\ UNCHANGED hvars

\* the client has its answer; the request is discarded
DeliverResponse ==
    /\ epc = "responded"
    /\ epc' = "idle"
    /\ request' = Null
    /\ network' = TransportFailure
    /\ response' = NoResponse
    /\ resolverCalls' = <<>>
    /\ resolverRaised' = <<>>
    /\ gets' = <<>>
    /\ downloads' = <<>>
    /\ caught' = NoExc
    /\ UNCHANGED hvars

-----------------------------------------------------------------------------
(* The health thread: perform_health_check, one statement at a time *)

reader == <<rpc, snap, servedAfter>>

\* line 93: the probe is sent and answered, refused or timed out
Probe ==
    /\ hpc = "probe"
    /\ \E o \in ProbeOutcomes :
         /\ probe' = o
         /\ now' = now + o.took
         /\ hpc' = IF o.kind = "raise" /\ ~ExceptCatches(o) THEN "time" ELSE "status"
    /\ atStart' = health_status
    /\ UNCHANGED <<health_status, cycles, boundaries, reader>>
    /\ UNCHANGED evars

\* lines 95, 99, 104
SetStatus ==
    /\ hpc = "status"
    /\ health_status' = [health_status EXCEPT !.status = StatusFor(probe)]
    /\ hpc' = "error"
    /\ UNCHANGED <<probe, now, cycles, atStart, boundaries, reader>>
    /\ UNCHANGED evars

\* lines 96, 100, 105
SetLastError ==
    /\ hpc = "error"
    /\ health_status' = [health_status EXCEPT !.last_error = LastErrorFor(probe)]
    /\ hpc' = "time"
    /\ UNCHANGED <<probe, now, cycles, atStart, boundaries, reader>>
    /\ UNCHANGED evars

\* line 109
SetLastCheck ==
    /\ hpc = "time"
    /\ health_status' = [health_status EXCEPT !.last_check = now]
    /\ hpc' = "count"
    /\ UNCHANGED <<probe, now, cycles, atStart, boundaries, reader>>
    /\ UNCHANGED evars

\* line 110, the last statement of perform_health_check: the cycle is complete
IncrChecks ==
    /\ hpc = "count"
    /\ health_status' =
         [health_status EXCEPT !.checks_performed = NextCount(health_status.checks_performed)]
    /\ cycles' = cycles + 1
    /\ boundaries' = boundaries \cup {health_status'}
    /\ hpc' = IF probe.kind = "raise" /\ ~ExceptCatches(probe) THEN "dead" ELSE "sleep"
    /\ UNCHANGED <<probe, now, atStart, reader>>
    /\ UNCHANGED evars

\* line 116: time.sleep(300), then the next turn of the loop
Sleep ==
    /\ hpc = "sleep"
    /\ cycles < MaxCycles
    /\ now' = now + SleepSeconds
    /\ hpc' = "probe"
    /\ UNCHANGED <<health_status, probe, cycles, atStart, boundaries, reader>>
    /\ UNCHANGED evars

-----------------------------------------------------------------------------
(* GET /health: the dict literal of health_check, one subscript at a time *)

monitor == <<health_status, hpc, probe, now, cycles, atStart, boundaries>>

HealthRequest ==
    /\ rpc = "idle"
    /\ rpc' = "status"
    /\ snap' = NoSnap
    /\ UNCHANGED <<servedAfter, monitor>>
    /\ UNCHANGED evars

\* line 168
ReadStatus ==
    /\ rpc = "status"
    /\ snap' = [snap EXCEPT !.status = health_status.status]
    /\ rpc' = "last_check"
    /\ UNCHANGED <<servedAfter, monitor>>
    /\ UNCHANGED evars

\* line 170
ReadLastCheck ==
    /\ rpc = "last_check"
    /\ snap' = [snap EXCEPT !.last_check = health_status.last_check]
    /\ rpc' = "checks_performed"
    /\ UNCHANGED <<servedAfter, monitor>>
    /\ UNCHANGED evars

\* line 171
ReadChecksPerformed ==
    /\ rpc = "checks_performed"
    /\ snap' = [snap EXCEPT !.checks_performed = health_status.checks_performed]
    /\ rpc' = "last_error"
    /\ UNCHANGED <<servedAfter, monitor>>
    /\ UNCHANGED evars

\* line 172
ReadLastError ==
    /\ rpc = "last_error"
    /\ snap' = [snap EXCEPT !.last_error = health_status.last_error]
    /\ rpc' = "respond"
    /\ UNCHANGED <<servedAfter, monitor>>
    /\ UNCHANGED evars

\* lines 173-174: the timestamp is taken and the response leaves with status 200
HealthRespond ==
    /\ rpc = "respond"
    /\ snap' = [snap EXCEPT !.timestamp = now, !.code = 200]
    /\ servedAfter' = cycles
    /\ rpc' = "done"
    /\ UNCHANGED monitor
    /\ UNCHANGED evars

\* the client has its answer
HealthDeliver ==
    /\ rpc = "done"
    /\ rpc' = "idle"
    /\ snap' = NoSnap
    /\ servedAfter' = 0
    /\ UNCHANGED monitor
    /\ UNCHANGED evars

-----------------------------------------------------------------------------
(* Specifications.  The extraction endpoint and the health subsystem share *)
(* no state, so each is also checked on its own.                           *)

NextExtract == SendRequest \/ ExtractText \/ DeliverResponse

NextHealth ==
    \/ Probe \/ SetStatus \/ SetLastError \/ SetLastCheck \/ IncrChecks \/ Sleep
    \/ HealthRequest \/ ReadStatus \/ ReadLastCheck \/ ReadChecksPerformed
    \/ ReadLastError \/ HealthRespond \/ HealthDeliver

Next == NextExtract \/ NextHealth

Spec == Init /\ [][Next]_vars
SpecExtract == Init /\ [][NextExtract]_vars
SpecHealth == Init /\ [][NextHealth]_vars

-----------------------------------------------------------------------------
(* Properties of POST /extract-text, checked under SpecExtract *)

Responded == epc = "responded"

\* the url the request carries, when its body is an object with a text url
HasUrlText == request.t = "obj" /\ "url" \in DOMAIN request.o /\ request.o["url"].t = "str"
UrlText == request.o["url"].s

IsErrorBody(body) == DOMAIN body = {"error", "status"} /\ body.status = "error"

\* a stage failed: the Resolver raised, or the GET was made and the remote
\* end refused it, or the GET brought back something that is no document
ResolverFailed == resolverRaised # <<>>
FetcherFailed ==
    /\ gets # <<>>
    /\ \/ network.kind = "failure"
       \/ network.status >= 400
       \/ ~(StartsWith(gets[1], "http://") \/ StartsWith(gets[1], "https://"))
ExtractorFailed == gets # <<>> /\ ~FetcherFailed /\ ~network.pdf

\* C1: whenever the Resolver, the Fetcher or the Extractor fails the answer is
\* 500 with a JSON body {error: <the failure's description>, status: "error"};
\* every answer other than 200 is such an error object with status 400 or 500;
\* 200 is answered only when every stage succeeded.
C1_StageFailureAnswers500 ==
    Responded =>
      /\ (ResolverFailed \/ FetcherFailed \/ ExtractorFailed) =>
           /\ response.code = 500
           /\ IsErrorBody(response.body)
           /\ caught # NoExc
           /\ response.body.error = caught.msg
      /\ response.code # 200 => response.code \in {400, 500} /\ IsErrorBody(response.body)
      /\ response.code = 200 =>
           /\ ~ResolverFailed /\ ~FetcherFailed /\ ~ExtractorFailed
           /\ gets # <<>> /\ network.pdf
           /\ response.body.status = "success"

C1_Witness ==
    /\ Responded
    /\ ExtractorFailed
    /\ response.code = 500
    /\ response.body.error = "Failed to extract text from PDF: EOF marker not found"

\* a JSON body without a url field: any JSON value but an object that has one
HasNoUrlField == request.t # "invalid" /\ (request.t = "obj" => "url" \notin DOMAIN request.o)

\* C2: a request whose JSON body has no url field is answered 400 with an
\* error body that names the missing url field, and nothing is downloaded.
C2_MissingUrlAnswers400 ==
    (Responded /\ HasNoUrlField) =>
      /\ response.code = 400
      /\ IsErrorBody(response.body)
      /\ Contains(response.body.error, "url")
      /\ downloads = <<>> /\ gets = <<>>

HasHttpScheme(u) == StartsWith(u, "http://") \/ StartsWith(u, "https://")

\* C3: a request whose url is present but does not begin with http:// or
\* https:// is answered 400 "Invalid URL format", and neither the Resolver nor
\* the Fetcher is invoked.
C3_NonHttpUrlAnswers400 ==
    (Responded /\ HasUrlText /\ ~HasHttpScheme(UrlText)) =>
      /\ response = JsonResponse(400, [error |-> "Invalid URL format", status |-> "error"])
      /\ resolverCalls = <<>> /\ downloads = <<>> /\ gets = <<>>

\* C4: for a Drive URL <pre>/file/d/<id><suf> the Resolver is called and yields
\* exactly https://drive.google.com/uc?export=download&id=<id>, the GET going
\* to that URL, also when an id=<other> parameter stands before or after the
\* path segment.
C4_FileLinkResolvesToItsId ==
    Responded =>
      \A pre \in DrivePrefixes, id \in FileIds, suf \in LinkSuffixes :
        request = Obj("url" :> Str(pre \o "/file/d/" \o id \o suf)) =>
          /\ resolverCalls = <<pre \o "/file/d/" \o id \o suf>>
          /\ resolverRaised = <<>>
          /\ gets = <<"https://drive.google.com/uc?export=download&id=" \o id>>

C4_Witness ==
    /\ Responded
    /\ request = Obj("url" :> Str("https://drive.google.com/open?id=OTHER&next=/file/d/1aB-c_9/view?id=zz9&export=download"))
    /\ gets = <<"https://drive.google.com/uc?export=download&id=1aB-c_9">>

\* the host of an absolute URL: what stands between :// and the next / ? or #
RECURSIVE HostEnd(_, _)
HostEnd(u, i) ==
    IF i > Len(u) \/ CharAt(u, i) \in {"/", "?", "#"} THEN i - 1 ELSE HostEnd(u, i + 1)
HostOf(u) ==
    LET start == Min({i \in 1..Len(u) : OccursAt(u, "://", i)}) + 3
    IN SubSeq(u, start, HostEnd(u, start))

\* C5: for an absolute http(s) URL whose host is not drive.google.com, also one
\* that mentions drive.google.com in its path or query, the GET goes to exactly
\* the input URL and the Resolver raises nothing.
C5_OtherHostsPassThrough ==
    (Responded /\ HasUrlText /\ HasHttpScheme(UrlText) /\ HostOf(UrlText) # "drive.google.com") =>
      /\ gets = <<UrlText>>
      /\ resolverRaised = <<>>

CouldNotExtract == Exc("ValueError", "Could not extract file ID from Google Drive URL")

\* C6 as stated: for a Drive URL no pattern finds an identifier in, the request
\* fails with the Resolver's InvalidUrlFormat error, not with a DownloadFailed
\* error, and no GET is made.
C6_FailsWithInvalidUrlFormat ==
    (Responded /\ HasUrlText /\ UrlText \in NoIdLinks) =>
      /\ caught = CouldNotExtract
      /\ gets = <<>>

\* C6 amended: for a Drive URL no pattern finds an identifier in, the Resolver
\* raises its could-not-extract error, download_pdf re-raises it as a
\* DownloadFailed error that carries the Resolver's message, the answer is 500
\* with that description, and no GET is made.
C6_ResolverErrorIsWrapped ==
    (Responded /\ HasUrlText /\ UrlText \in NoIdLinks) =>
      /\ resolverRaised = <<CouldNotExtract>>
      /\ caught = Exc("Exception",
                      "Failed to download PDF: Could not extract file ID from Google Drive URL")
      /\ response = JsonResponse(500, [error |-> caught.msg, status |-> "error"])
      /\ gets = <<>>

C6_Witness ==
    /\ Responded
    /\ request = Obj("url" :> Str("https://drive.google.com/open?id="))
    /\ resolverRaised = <<CouldNotExtract>>
    /\ response.code = 500

-----------------------------------------------------------------------------
(* Properties of the health loop and GET /health, checked under SpecHealth *)

\* perform_health_check has returned and the thread sleeps
CycleDone == hpc = "sleep"

\* C7: every probe cycle, whichever branch it took, leaves checks_performed one
\* higher than it found it and last_check changed; checks_performed never
\* decreases and always equals the number of completed cycles.
C7_CounterCountsCycles ==
    /\ [](CycleDone =>
            /\ health_status.checks_performed = atStart.checks_performed + 1
            /\ health_status.last_check # atStart.last_check)
    /\ [](health_status.checks_performed = cycles)
    /\ [][health_status'.checks_performed >= health_status.checks_performed]_vars

C7_Witness ==
    /\ CycleDone
    /\ probe.kind = "raise"
    /\ cycles = 2
    /\ health_status.checks_performed = 2
    /\ health_status.last_check > atStart.last_check

\* C8: after a completed cycle the state shows that cycle's outcome alone:
\* 200 gives healthy and no error; another status code gives warning and an
\* error naming the code; a raised failure gives unhealthy and the failure's
\* description; the thread never dies.
C8_StateShowsLastOutcome ==
    /\ hpc # "dead"
    /\ CycleDone =>
         /\ (probe.kind = "status" /\ probe.code = 200) =>
              health_status.status = "healthy" /\ health_status.last_error = Null
         /\ (probe.kind = "status" /\ probe.code = 404) =>
              /\ health_status.status = "warning"
              /\ health_status.last_error = Str("Test download failed with status 404")
         /\ (probe.kind = "status" /\ probe.code = 503) =>
              /\ health_status.status = "warning"
              /\ health_status.last_error = Str("Test download failed with status 503")
         /\ probe.kind = "raise" =>
              /\ health_status.status = "unhealthy"
              /\ health_status.last_error = Str(probe.msg)

C8_Witness ==
    /\ CycleDone
    /\ atStart.status = "unhealthy"
    /\ atStart.last_error # Null
    /\ probe = Status(200)
    /\ health_status.status = "healthy"
    /\ health_status.last_error = Null

\* C9: a GET /health answered before any probe cycle has completed answers 200
\* with checks_performed 0 and status healthy.
C9_EarlySnapshotIsInitial ==
    (rpc = "done" /\ servedAfter = 0) =>
      /\ snap.code = 200
      /\ snap.checks_performed = 0
      /\ snap.status = "healthy"

SnapState ==
    [status |-> snap.status, last_check |-> snap.last_check,
     checks_performed |-> snap.checks_performed, last_error |-> snap.last_error]

\* C10: every snapshot GET /health returns is the state as it stood between two
\* cycles (or the initial one): it is healthy exactly when its last_error is
\* null, and its four fields were written by one and the same cycle.
C10_SnapshotIsOneCycleBoundary ==
    rpc = "done" =>
      /\ SnapState \in boundaries
      /\ snap.status = "healthy" <=> snap.last_error = Null

====
